---------------------------- MODULE Spec2Model ----------------------------
(***************************************************************************)
(* Model of src/main.cpp (GARGANTUA, a black-hole visualisation).          *)
(*                                                                         *)
(* The program is one thread: startup (lines 94-128), a frame loop         *)
(* (130-313) and shutdown (315-318).  The frame body is modelled as five   *)
(* stages in program order: camera update (135-147), orbit advance         *)
(* (150-153), screen projection (157-165), pass 1 (168-285) and pass 2     *)
(* (288-312).                                                              *)
(*                                                                         *)
(* The code computes in 32-bit floats; the model uses exact fixed point:   *)
(*   time, dt                 milliseconds                                 *)
(*   camAngle/camElev/camDist micro-radians / micro-radians / micro-units  *)
(*   particle angle           milli-radians                                *)
(*   particle radius, yOffset milli-units                                  *)
(*   particle speed           milli-radians per second                     *)
(*   GetDiskColor             t in hundredths, doppler in tenths           *)
(* raylib's trigonometry and projection (cosf, sinf, GetWorldToScreen) are *)
(* library code; their results are kept as terms over their arguments.     *)
(***************************************************************************)
EXTENDS Integers, Sequences, FiniteSets, TLC

VARIABLES
    pc,         \* position of the single thread in main()
    shaderOk,   \* whether LoadShader produced the lensing shader (line 100)
    shaderLoaded, rtLoaded, windowOpen,   \* resources held
    stars, disk,                          \* lines 123-124
    camAngle, camElev, camDist, autoRot,  \* lines 126-127
    time,                                 \* line 128
    camPos,     \* cam.position (lines 111, 145-147)
    dt, keys,   \* this frame's GetFrameTime() and key state
    bhScreen,   \* lines 157-165
    sceneRT,    \* what pass 1 drew into the render texture
    screen,     \* what pass 2 presented, with the uniforms it was given
    frames,     \* number of frames started
    env,        \* the inputs the environment may supply
    call, col   \* argument and result of a GetDiskColor call

vars == <<pc, shaderOk, shaderLoaded, rtLoaded, windowOpen, stars, disk,
          camAngle, camElev, camDist, autoRot, time, camPos, dt, keys,
          bhScreen, sceneRT, screen, frames, env, call, col>>

-----------------------------------------------------------------------------
(* Bounds of the model *)
MaxFrames == 3
NumParticles == 2
NumStars == 1

(* Program constants, in the model's units *)
TwoPi == 6283
ElevMax == 1200000
ElevMin == -300000
DistMin == 6000000
DistMax == 30000000
DISK_INNER == 2500
DISK_OUTER == 9000
SCREEN_WIDTH == 1280
SCREEN_HEIGHT == 720

Min(a, b) == IF a <= b THEN a ELSE b
Max(a, b) == IF a >= b THEN a ELSE b

AllKeys == {"A", "D", "W", "S", "Q", "E", "SPACE"}

-----------------------------------------------------------------------------
(* Scene generation *)

\* floor(sqrt(n)), standing for sqrtf on fixed-point values
ISqrt(n) == CHOOSE s \in 0..3200 : s * s <= n /\ (s + 1) * (s + 1) > n

\* GetRandomValue(0, 3600) * 0.1f * DEG2RAD: tenths of a degree to radians.
\* In float arithmetic 3600 * 0.1f * DEG2RAD is exactly the float PI * 2.
DegTenthToRad(raw) == (raw * TwoPi) \div 3600

\* lines 38-40: t = u * 0.001; t = t * t; radius = rIn + t * (rOut - rIn)
\* u*u*(rOut-rIn)/10^6 is formed in two halves to stay within 32-bit integers
DiskRadius(u, rIn, rOut) ==
    LET t  == u * u
        hi == (t \div 1000) * (rOut - rIn)
        lo == (t % 1000) * (rOut - rIn)
    IN  rIn + hi \div 1000 + ((hi % 1000) * 1000 + lo) \div 1000000

\* line 42: speed = 2 / sqrt(radius)
KeplerSpeed(radius) == 2000000 \div ISqrt(radius * 1000)

\* lines 38-43: one particle from its three raw random samples
MakeParticle(s, rIn, rOut) ==
    LET r == DiskRadius(s.u, rIn, rOut)
    IN  [angle   |-> DegTenthToRad(s.a),
         radius  |-> r,
         speed   |-> KeplerSpeed(r),
         yOffset |-> s.y]

\* lines 35-46
CreateDisk(samples, rIn, rOut) ==
    [i \in 1..Len(samples) |-> MakeParticle(samples[i], rIn, rOut)]

\* lines 24-28: a star, kept in the spherical coordinates it is built from
MakeStar(s) ==
    [theta      |-> DegTenthToRad(s.theta),
     phi        |-> DegTenthToRad(s.phi),
     d          |-> 50 + s.d,
     brightness |-> 50 + s.b]

\* lines 21-31
CreateStars(samples) == [i \in 1..Len(samples) |-> MakeStar(samples[i])]

-----------------------------------------------------------------------------
(* Orbit camera, one operator per statement of lines 135-142 *)

RotateLeft(angle, d, k)  == IF "A" \in k THEN angle - 1000 * d ELSE angle
RotateRight(angle, d, k) == IF "D" \in k THEN angle + 1000 * d ELSE angle
\* line 137 without its fminf
TiltUpUnclamped(elev, d, k) == IF "W" \in k THEN elev + 500 * d ELSE elev
TiltUp(elev, d, k)   == IF "W" \in k THEN Min(elev + 500 * d, ElevMax) ELSE elev
TiltDown(elev, d, k) == IF "S" \in k THEN Max(elev - 500 * d, ElevMin) ELSE elev
ZoomIn(dist, d, k)   == IF "Q" \in k THEN Max(dist - 4000 * d, DistMin) ELSE dist
ZoomOut(dist, d, k)  == IF "E" \in k THEN Min(dist + 4000 * d, DistMax) ELSE dist
\* line 141 written as an assignment of true
ToggleAutoSet(auto, k) == IF "SPACE" \in k THEN TRUE ELSE auto
ToggleAuto(auto, k)  == IF "SPACE" \in k THEN ~auto ELSE auto
\* line 142 with = in place of +=
AutoRotateAssign(angle, auto, d) == IF auto THEN 120 * d ELSE angle
AutoRotate(angle, auto, d) == IF auto THEN angle + 120 * d ELSE angle

\* lines 145-147: cam.position as a term over the pose it is computed from
\* lines 145-147 with elevation and distance exchanged
SphericalPosSwapped(angle, elev, dist) ==
    [src |-> "pose", angle |-> angle, elev |-> dist, dist |-> elev]
SphericalPos(angle, elev, dist) ==
    [src |-> "pose", angle |-> angle, elev |-> elev, dist |-> dist]

-----------------------------------------------------------------------------
(* Orbit simulator, lines 150-153 *)

\* line 151 adding the step to the radius as well
AdvanceParticleDrift(p, d) ==
    LET a == p.angle + (p.speed * d) \div 1000
    IN  [p EXCEPT !.angle = IF a > TwoPi THEN a - TwoPi ELSE a,
                  !.radius = @ + (p.speed * d) \div 1000]
AdvanceParticle(p, d) ==
    LET a == p.angle + (p.speed * d) \div 1000
    IN  [p EXCEPT !.angle = IF a > TwoPi THEN a - TwoPi ELSE a]

AdvanceDisk(ps, d) == [i \in 1..Len(ps) |-> AdvanceParticle(ps[i], d)]

-----------------------------------------------------------------------------
(* Screen projector, lines 157-165 *)

\* GetWorldToScreen(point, cam), as a term over the point and the camera
WorldToScreen(point, pos) == [point |-> point, cam |-> pos]

ProjectBlackHole(pos) ==
    [center |-> WorldToScreen("bhWorld", pos),
     edge   |-> WorldToScreen("bhEdge", pos)]

-----------------------------------------------------------------------------
(* Colour model, lines 50-91.  t100 = 100 t, d10 = 10 doppler.  Channel    *)
(* values are carried as exact integers scaled by 210 (before the shift),  *)
(* 2100 (after it) and 2100000 (after the intensity).                      *)

DISK_HOT  == [r |-> 255, g |-> 255, b |-> 240]
DISK_MID  == [r |-> 255, g |-> 200, b |-> 100]
DISK_COLD == [r |-> 200, g |-> 80,  b |-> 30]

\* lines 55-65 with the breakpoint test written t < 0.7
BaseChannelBreak(t100, hot, mid, cold) ==
    IF t100 < 70
    THEN 210 * hot + (mid - hot) * t100 * 7
    ELSE 210 * mid + (cold - mid) * (t100 - 30) * 3
\* lines 55-65, one channel, scaled by 210
BaseChannel(t100, hot, mid, cold) ==
    IF t100 < 30
    THEN 210 * hot + (mid - hot) * t100 * 7
    ELSE 210 * mid + (cold - mid) * (t100 - 30) * 3

\* lines 69-70, scaled by 1000
Intensity(d10) == Max(300, Min(2500, d10 * d10 * d10))

\* lines 74-84 with the blue shift of line 76 subtracted
ShiftColorBlueDown(base, d10) ==
    IF d10 > 10
    THEN [r |-> Max(0, 10 * base.r - 20 * 168 * (d10 - 10)),
          g |-> Min(255 * 2100, 10 * base.g + 30 * 168 * (d10 - 10)),
          b |-> Max(0, Min(255 * 2100, 10 * base.b - 60 * 168 * (d10 - 10)))]
    ELSE [r |-> Min(255 * 2100, 10 * base.r + 40 * 252 * (10 - d10)),
          g |-> Max(0, 10 * base.g - 30 * 252 * (10 - d10)),
          b |-> Max(0, 10 * base.b - 60 * 252 * (10 - d10))]
\* lines 74-84, scaled by 2100
ShiftColor(base, d10) ==
    IF d10 > 10
    THEN [r |-> Max(0, 10 * base.r - 20 * 168 * (d10 - 10)),
          g |-> Min(255 * 2100, 10 * base.g + 30 * 168 * (d10 - 10)),
          b |-> Min(255 * 2100, 10 * base.b + 60 * 168 * (d10 - 10))]
    ELSE [r |-> Min(255 * 2100, 10 * base.r + 40 * 252 * (10 - d10)),
          g |-> Max(0, 10 * base.g - 30 * 252 * (10 - d10)),
          b |-> Max(0, 10 * base.b - 60 * 252 * (10 - d10))]

\* lines 86-90: scale by the intensity, clamp to 255, cast to unsigned char
FinalChannel(c, d10) == Min(255 * 2100000, c * Intensity(d10)) \div 2100000

GetDiskColor(t100, d10) ==
    LET base == [r |-> BaseChannel(t100, DISK_HOT.r, DISK_MID.r, DISK_COLD.r),
                 g |-> BaseChannel(t100, DISK_HOT.g, DISK_MID.g, DISK_COLD.g),
                 b |-> BaseChannel(t100, DISK_HOT.b, DISK_MID.b, DISK_COLD.b)]
        s == ShiftColor(base, d10)
    IN  [r |-> FinalChannel(s.r, d10),
         g |-> FinalChannel(s.g, d10),
         b |-> FinalChannel(s.b, d10)]

-----------------------------------------------------------------------------
(* The program *)

NoColor == [r |-> -1, g |-> -1, b |-> -1]
NoCall  == [t |-> -1, d |-> -1]
NoProj  == ProjectBlackHole([src |-> "none", angle |-> 0, elev |-> 0, dist |-> 0])
Nothing == [drawn |-> FALSE]

InitProgram(e) ==
    /\ pc = "start"
    /\ shaderOk = FALSE /\ shaderLoaded = FALSE /\ rtLoaded = FALSE
    /\ windowOpen = FALSE
    /\ stars = <<>> /\ disk = <<>>
    /\ camAngle = 0 /\ camElev = 0 /\ camDist = 0 /\ autoRot = FALSE
    /\ time = 0
    /\ camPos = [src |-> "none", angle |-> 0, elev |-> 0, dist |-> 0]
    /\ dt = 0 /\ keys = {}
    /\ bhScreen = NoProj
    /\ sceneRT = Nothing
    /\ screen = Nothing
    /\ frames = 0
    /\ env = e

InitWith(e) == InitProgram(e) /\ call = NoCall /\ col = NoColor

\* lines 94-128.  LoadShader's outcome is not examined by the code.
Startup ==
    /\ pc = "start"
    /\ \E ok \in env.shaderOutcomes :
         /\ shaderOk' = ok
    /\ shaderLoaded' = TRUE
    /\ rtLoaded' = TRUE
    /\ windowOpen' = TRUE
    /\ \E ss \in [1..NumStars -> env.starSamples] :
         stars' = CreateStars(ss)
    /\ \E ds \in [1..NumParticles -> env.diskSamples] :
         disk' = CreateDisk(ds, DISK_INNER, DISK_OUTER)
    /\ camPos' = [src |-> "literal", angle |-> 0, elev |-> 0, dist |-> 0]
    /\ camAngle' = 0 /\ camElev' = 200000 /\ camDist' = 16000000
    /\ autoRot' = TRUE
    /\ time' = 0
    /\ pc' = "loop"
    /\ UNCHANGED <<dt, keys, bhScreen, sceneRT, screen, frames, env, call, col>>

\* line 130, WindowShouldClose() returned true
LoopExit ==
    /\ pc = "loop"
    /\ TRUE \in env.closes
    /\ pc' = "unload"
    /\ UNCHANGED <<shaderOk, shaderLoaded, rtLoaded, windowOpen, stars, disk,
                   camAngle, camElev, camDist, autoRot, time, camPos, dt, keys,
                   bhScreen, sceneRT, screen, frames, env, call, col>>

\* lines 130-132, WindowShouldClose() returned false: a frame starts
FrameBegin ==
    /\ pc = "loop"
    /\ FALSE \in env.closes
    /\ frames < MaxFrames
    /\ \E d \in env.dts, k \in env.keysets :
         /\ dt' = d
         /\ keys' = k
         /\ time' = time + d
    /\ frames' = frames + 1
    /\ pc' = "camera"
    /\ UNCHANGED <<shaderOk, shaderLoaded, rtLoaded, windowOpen, stars, disk,
                   camAngle, camElev, camDist, autoRot, camPos,
                   bhScreen, sceneRT, screen, env, call, col>>

\* lines 135-147
CameraUpdate ==
    /\ pc = "camera"
    /\ LET auto == ToggleAuto(autoRot, keys)
           ang  == AutoRotate(RotateRight(RotateLeft(camAngle, dt, keys), dt, keys),
                              auto, dt)
           elev == TiltDown(TiltUp(camElev, dt, keys), dt, keys)
           dist == ZoomOut(ZoomIn(camDist, dt, keys), dt, keys)
       IN  /\ autoRot' = auto
           /\ camAngle' = ang
           /\ camElev' = elev
           /\ camDist' = dist
           /\ camPos' = SphericalPos(ang, elev, dist)
    /\ pc' = "advance"
    /\ UNCHANGED <<shaderOk, shaderLoaded, rtLoaded, windowOpen, stars, disk,
                   time, dt, keys, bhScreen, sceneRT, screen, frames, env,
                   call, col>>

\* lines 150-153
OrbitAdvance ==
    /\ pc = "advance"
    /\ disk' = AdvanceDisk(disk, dt)
    /\ pc' = "project"
    /\ UNCHANGED <<shaderOk, shaderLoaded, rtLoaded, windowOpen, stars,
                   camAngle, camElev, camDist, autoRot, time, camPos, dt, keys,
                   bhScreen, sceneRT, screen, frames, env, call, col>>

\* lines 157-165
Project ==
    /\ pc = "project"
    /\ bhScreen' = ProjectBlackHole(camPos)
    /\ pc' = "pass1"
    /\ UNCHANGED <<shaderOk, shaderLoaded, rtLoaded, windowOpen, stars, disk,
                   camAngle, camElev, camDist, autoRot, time, camPos, dt, keys,
                   sceneRT, screen, frames, env, call, col>>

\* lines 168-285: the scene drawn into sceneRT under the current camera
Pass1 ==
    /\ pc = "pass1"
    /\ sceneRT' = [drawn  |-> TRUE,
                   cam    |-> camPos,
                   nstars |-> Len(stars),
                   points |-> [i \in 1..Len(disk) |->
                                 [angle   |-> disk[i].angle,
                                  radius  |-> disk[i].radius,
                                  yOffset |-> disk[i].yOffset]],
                   time   |-> time]
    /\ pc' = "pass2"
    /\ UNCHANGED <<shaderOk, shaderLoaded, rtLoaded, windowOpen, stars, disk,
                   camAngle, camElev, camDist, autoRot, time, camPos, dt, keys,
                   bhScreen, screen, frames, env, call, col>>

\* lines 288-312: sceneRT presented through lensShader with four uniforms
Pass2 ==
    /\ pc = "pass2"
    /\ screen' = [drawn      |-> TRUE,
                  lensed     |-> shaderOk,
                  resolution |-> <<SCREEN_WIDTH, SCREEN_HEIGHT>>,
                  bhPos      |-> bhScreen.center,
                  bhRadOf    |-> <<bhScreen.edge, bhScreen.center>>,
                  time       |-> time,
                  texture    |-> sceneRT]
    /\ pc' = "loop"
    /\ UNCHANGED <<shaderOk, shaderLoaded, rtLoaded, windowOpen, stars, disk,
                   camAngle, camElev, camDist, autoRot, time, camPos, dt, keys,
                   bhScreen, sceneRT, frames, env, call, col>>

\* lines 315-318 without UnloadRenderTexture
ShutdownLeak ==
    /\ pc = "unload"
    /\ shaderLoaded' = FALSE
    /\ rtLoaded' = rtLoaded
    /\ windowOpen' = FALSE
    /\ pc' = "done"
    /\ UNCHANGED <<shaderOk, stars, disk, camAngle, camElev, camDist, autoRot,
                   time, camPos, dt, keys, bhScreen, sceneRT, screen, frames,
                   env, call, col>>
\* lines 315-318
Shutdown ==
    /\ pc = "unload"
    /\ shaderLoaded' = FALSE
    /\ rtLoaded' = FALSE
    /\ windowOpen' = FALSE
    /\ pc' = "done"
    /\ UNCHANGED <<shaderOk, stars, disk, camAngle, camElev, camDist, autoRot,
                   time, camPos, dt, keys, bhScreen, sceneRT, screen, frames,
                   env, call, col>>

Next ==
    \/ Startup
    \/ LoopExit
    \/ FrameBegin
    \/ CameraUpdate
    \/ OrbitAdvance
    \/ Project
    \/ Pass1
    \/ Pass2
    \/ Shutdown

-----------------------------------------------------------------------------
(* Environments: the inputs each specification lets the outside world      *)
(* supply (frame times, key states, random samples, the close signal and   *)
(* the outcome of LoadShader).                                             *)

CamKeySets ==
    {{}, {"A"}, {"D"}, {"W"}, {"S"}, {"Q"}, {"E"}, {"SPACE"},
     {"W", "S"}, {"Q", "E"}, {"A", "D"}, {"D", "SPACE"}, {"W", "Q"}}

OneStar == {[theta |-> 900, phi |-> 450, d |-> 25, b |-> 50]}

CamEnv ==
    [shaderOutcomes |-> {TRUE},
     closes         |-> {TRUE, FALSE},
     dts            |-> {0, 200, 2000},
     keysets        |-> CamKeySets,
     starSamples    |-> OneStar,
     diskSamples    |-> {[u |-> 500, a |-> 1800, y |-> 0]}]

DiskEnv ==
    [shaderOutcomes |-> {TRUE},
     closes         |-> {TRUE, FALSE},
     dts            |-> {0, 16, 1000, 6000},
     keysets        |-> {{}},
     starSamples    |-> {[theta |-> 0, phi |-> 0, d |-> 0, b |-> 0],
                         [theta |-> 3600, phi |-> 1800, d |-> 50, b |-> 50]},
     diskSamples    |-> {[u |-> 0,    a |-> 0,    y |-> -50],
                         [u |-> 500,  a |-> 1800, y |-> 0],
                         [u |-> 1000, a |-> 3600, y |-> 50],
                         [u |-> 1,    a |-> 3599, y |-> 7]}]

LifeEnv ==
    [shaderOutcomes |-> {TRUE, FALSE},
     closes         |-> {TRUE, FALSE},
     dts            |-> {16, 1000},
     keysets        |-> {{}, {"D"}, {"SPACE"}, {"W", "E"}},
     starSamples    |-> OneStar,
     diskSamples    |-> {[u |-> 500, a |-> 1800, y |-> 0],
                         [u |-> 1000, a |-> 3600, y |-> 50]}]

Init == InitWith(LifeEnv)
Spec == Init /\ [][Next]_vars

\* the thread keeps executing: every step that is enabled is eventually taken
FairSpec == Init /\ [][Next]_vars /\ WF_vars(Next)

InitCam == InitWith(CamEnv)
SpecCam == InitCam /\ [][Next]_vars

InitDisk == InitWith(DiskEnv)
SpecDisk == InitDisk /\ [][Next]_vars

\* GetDiskColor on its own: every t in [0,1] by hundredths and every doppler
\* in [0.3, 2.5] by tenths
TGrid == 0..100
DGrid == 3..25

InitColor ==
    /\ InitProgram(LifeEnv)
    /\ \E t \in TGrid, d \in DGrid : call = [t |-> t, d |-> d]
    /\ col = NoColor

\* one call of GetDiskColor (lines 194, 231, 250)
Shade ==
    /\ col = NoColor
    /\ col' = GetDiskColor(call.t, call.d)
    /\ UNCHANGED <<pc, shaderOk, shaderLoaded, rtLoaded, windowOpen, stars,
                   disk, camAngle, camElev, camDist, autoRot, time, camPos, dt,
                   keys, bhScreen, sceneRT, screen, frames, env, call>>

NextColor == Shade
SpecColor == InitColor /\ [][NextColor]_vars

-----------------------------------------------------------------------------
(* Properties *)

Started == pc # "start"
CameraStep == pc = "camera" /\ pc' = "advance"
InFrame == pc \in {"camera", "advance", "project", "pass1", "pass2"}

\* C1: from the initial camera state and after any sequence of frames with
\* any held tilt/zoom inputs and any dt >= 0, elevation stays in [-0.3, 1.2]
\* and distance in [6, 30]; a delta that would cross a bound leaves the value
\* exactly at that bound (at the statement that applies it, and at the end of
\* the frame when the opposite input is not held as well).
CameraClampsHold ==
    [][ /\ pc' # "start" =>
            /\ ElevMin <= camElev' /\ camElev' <= ElevMax
            /\ DistMin <= camDist' /\ camDist' <= DistMax
        /\ pc = "loop" /\ frames = 0 => camElev = 200000 /\ camDist = 16000000
        /\ CameraStep =>
            /\ "W" \in keys /\ camElev + 500 * dt >= ElevMax =>
                  /\ TiltUp(camElev, dt, keys) = ElevMax
                  /\ "S" \notin keys => camElev' = ElevMax
            /\ "S" \in keys /\ TiltUp(camElev, dt, keys) - 500 * dt <= ElevMin =>
                  camElev' = ElevMin
            /\ "Q" \in keys /\ camDist - 4000 * dt <= DistMin =>
                  /\ ZoomIn(camDist, dt, keys) = DistMin
                  /\ "E" \notin keys => camDist' = DistMin
            /\ "E" \in keys /\ ZoomIn(camDist, dt, keys) + 4000 * dt >= DistMax =>
                  camDist' = DistMax
      ]_vars

\* C1 witness: a zoom-out frame has just been clamped at the outer bound
\* (16 + 4 dt k never lands on 30 with the frame times used, so the delta
\* crossed it).
CameraClampedAtBound ==
    /\ pc = "advance" /\ keys = {"E"} /\ dt > 0
    /\ camDist = DistMax

\* C2: after creation and after any number of orbit advances every particle's
\* angle is in [0, 2 pi): never negative, never equal to or above 2 pi.
AngleInHalfOpenRange ==
    Started => \A i \in 1..Len(disk) :
                  0 <= disk[i].angle /\ disk[i].angle < TwoPi

\* C3: the orbit advance changes only a particle's angle: radius, speed and
\* yOffset keep their creation values, the numbers of particles and stars
\* never change, and every radius is within [DISK_INNER, DISK_OUTER], for
\* every raw sample CreateDisk can draw.
OnlyAngleChanges ==
    [][ /\ Started =>
            /\ Len(disk') = Len(disk)
            /\ stars' = stars
            /\ \A i \in 1..Len(disk) :
                  /\ disk'[i].radius = disk[i].radius
                  /\ disk'[i].speed = disk[i].speed
                  /\ disk'[i].yOffset = disk[i].yOffset
        /\ pc' # "start" =>
            /\ Len(disk') = NumParticles /\ Len(stars') = NumStars
            /\ \A i \in 1..Len(disk') :
                  DISK_INNER <= disk'[i].radius /\ disk'[i].radius <= DISK_OUTER
        /\ pc = "start" =>
            \A u \in 0..1000 :
                /\ DISK_INNER <= DiskRadius(u, DISK_INNER, DISK_OUTER)
                /\ DiskRadius(u, DISK_INNER, DISK_OUTER) <= DISK_OUTER
      ]_vars

\* C3 witness: a particle created on the outer edge has been advanced by a
\* one-second frame, in at least its second frame.
OuterParticleAdvanced ==
    /\ pc = "project" /\ dt = 1000 /\ frames >= 2
    /\ \E i \in 1..Len(disk) : disk[i].radius = DISK_OUTER /\ disk[i].angle > 0

\* C4: SPACE pressed in a frame flips the camera mode and does nothing else:
\* the toggle leaves angle, elevation and distance alone (with SPACE as the
\* only input the angle moves only by the auto-rotation of the mode entered,
\* elevation and distance not at all), and toggling twice restores the mode.
ToggleOnlyFlipsMode ==
    [][ CameraStep =>
          /\ autoRot' = (IF "SPACE" \in keys THEN ~autoRot ELSE autoRot)
          /\ "SPACE" \in keys =>
                /\ autoRot' # autoRot
                /\ ToggleAuto(ToggleAuto(autoRot, keys), keys) = autoRot
          /\ keys = {"SPACE"} =>
                /\ camElev' = camElev
                /\ camDist' = camDist
                /\ camAngle' = camAngle + (IF autoRot THEN 0 ELSE 120 * dt)
      ]_vars

\* C4 witness: the mode has been toggled off and on again, with the camera
\* away from its initial pose.
ToggledBackToAuto ==
    /\ pc = "advance" /\ keys = {"SPACE"} /\ autoRot /\ frames >= 3
    /\ camAngle > 0 /\ camElev # 200000

\* C5: if the lensing shader fails to load, startup aborts: no frame is ever
\* begun and no rendering pass is issued without the post-process stage.
ShaderFailureAborts ==
    (InFrame \/ screen.drawn) => shaderOk

\* C6: in every frame the stages run once each in the order camera update,
\* orbit advance, projection, pass 1, pass 2; the uniforms given to pass 2
\* are computed from the camera pose updated in that frame, and pass 1 draws
\* the particles at the angles left by that frame's advance.
FrameStagesInOrder ==
    [][ /\ pc = "camera"  => pc' = "advance"
        /\ pc = "advance" => pc' = "project"
        /\ pc = "project" => pc' = "pass1"
        /\ pc = "pass1"   => pc' = "pass2"
        /\ pc = "pass2"   => pc' = "loop"
        /\ pc' = "camera" => pc = "loop" /\ frames' = frames + 1
        /\ pc' \in {"advance", "project", "pass1", "pass2"} => frames' = frames
        /\ pc \in {"advance", "project", "pass1", "pass2"} =>
              /\ camAngle' = camAngle /\ camElev' = camElev /\ camDist' = camDist
        /\ pc \in {"camera", "project", "pass1", "pass2"} => disk' = disk
        /\ pc = "pass1" =>
              /\ sceneRT'.cam = [src |-> "pose", angle |-> camAngle,
                                 elev |-> camElev, dist |-> camDist]
              /\ \A i \in 1..Len(disk) :
                    sceneRT'.points[i].angle = disk[i].angle
        /\ pc = "pass2" =>
              /\ screen'.bhPos =
                    [point |-> "bhWorld",
                     cam   |-> [src |-> "pose", angle |-> camAngle,
                                elev |-> camElev, dist |-> camDist]]
              /\ screen'.bhRadOf[1] =
                    [point |-> "bhEdge",
                     cam   |-> [src |-> "pose", angle |-> camAngle,
                                elev |-> camElev, dist |-> camDist]]
              /\ screen'.bhRadOf[2] = screen'.bhPos
              /\ screen'.time = time
              /\ screen'.texture = sceneRT
              /\ \A i \in 1..Len(disk) :
                    screen'.texture.points[i].angle = disk[i].angle
      ]_vars

\* C6 witness: a second frame has been presented after the camera moved and
\* the particles advanced.
SecondFramePresented ==
    /\ pc = "loop" /\ frames >= 2 /\ screen.drawn
    /\ dt > 0 /\ "D" \in keys
    /\ screen.bhPos.cam.angle = camAngle /\ camAngle > 0

\* the unshifted piecewise-linear base colour of one channel, truncated
LerpHotMid(hot, mid, t100) == (30 * hot + (mid - hot) * t100) \div 30
LerpMidCold(mid, cold, t100) == (70 * mid + (cold - mid) * (t100 - 30)) \div 70

\* C7: for every t in [0,1], GetDiskColor(t, 1.0) has channels in [0,255]
\* equal to the unshifted base colour (hot to mid below 0.3, mid to cold from
\* 0.3 on); GetDiskColor(0.0, 1.0) is exactly (255, 255, 240).
UnshiftedAtDopplerOne ==
    (col # NoColor /\ call.d = 10) =>
        /\ col.r \in 0..255 /\ col.g \in 0..255 /\ col.b \in 0..255
        /\ call.t < 30 =>
              col = [r |-> LerpHotMid(255, 255, call.t),
                     g |-> LerpHotMid(255, 200, call.t),
                     b |-> LerpHotMid(240, 100, call.t)]
        /\ call.t >= 30 =>
              col = [r |-> LerpMidCold(255, 200, call.t),
                     g |-> LerpMidCold(200, 80, call.t),
                     b |-> LerpMidCold(100, 30, call.t)]
        /\ call.t = 0 => col = [r |-> 255, g |-> 255, b |-> 240]

\* C7 witness: GetDiskColor(0.0, 1.0) has returned the hot reference colour.
HotColorShaded ==
    /\ call = [t |-> 0, d |-> 10]
    /\ col = [r |-> 255, g |-> 255, b |-> 240]

\* C8 as stated: for fixed t and d1 < d2 in [0.3, 2.5], blue is strictly
\* greater for d2 when both are above 1, and red is strictly greater for d2
\* when both are below 1.
DopplerStrictlyMonotone ==
    col # NoColor =>
        \A d2 \in DGrid :
            /\ (10 < call.d /\ call.d < d2) =>
                  GetDiskColor(call.t, d2).b > col.b
            /\ (call.d < d2 /\ d2 < 10) =>
                  GetDiskColor(call.t, d2).r > col.r

\* C8 as amended: above 1 the blue channel never decreases with d (it
\* saturates at 255); below 1 the red channel never decreases with d once
\* d1^3 >= 0.3, and never increases with d while d2^3 <= 0.3, where the
\* intensity sits on its lower clamp.
DopplerWeaklyMonotone ==
    col # NoColor =>
        \A d2 \in DGrid :
            /\ (10 < call.d /\ call.d < d2) =>
                  GetDiskColor(call.t, d2).b >= col.b
            /\ (call.d < d2 /\ d2 < 10 /\ call.d * call.d * call.d >= 300) =>
                  GetDiskColor(call.t, d2).r >= col.r
            /\ (call.d < d2 /\ d2 < 10 /\ d2 * d2 * d2 <= 300) =>
                  GetDiskColor(call.t, d2).r <= col.r

\* C8 witness: a blueshifted call whose blue channel is already saturated,
\* so that a larger doppler cannot raise it.
BlueSaturated ==
    /\ col # NoColor /\ call.t = 0 /\ call.d = 11
    /\ col.b = 255

\* the change of elevation and distance in one frame, from the held inputs
ElevAfter(e, d, k) ==
    LET up == IF "W" \in k THEN Min(e + 500 * d, 1200000) ELSE e
    IN  IF "S" \in k THEN Max(up - 500 * d, -300000) ELSE up
DistAfter(x, d, k) ==
    LET near == IF "Q" \in k THEN Max(x - 4000 * d, 6000000) ELSE x
    IN  IF "E" \in k THEN Min(near + 4000 * d, 30000000) ELSE near
RotateInput(d, k) ==
    (IF "D" \in k THEN 1000 * d ELSE 0) - (IF "A" \in k THEN 1000 * d ELSE 0)

\* C9 as stated: in a frame in auto-rotate mode the angle advances by exactly
\* 0.12 dt; in a frame in manual mode it changes by exactly +dt or -dt per
\* held rotate input; elevation and distance change by 0.5 dt and 4 dt per
\* held tilt/zoom input, then clamp.
TwoModeCamera ==
    [][ CameraStep =>
          /\ autoRot' => camAngle' = camAngle + 120 * dt
          /\ ~autoRot' => camAngle' = camAngle + RotateInput(dt, keys)
          /\ camElev' = ElevAfter(camElev, dt, keys)
          /\ camDist' = DistAfter(camDist, dt, keys)
      ]_vars

\* C9 as amended: the rotate inputs act in both modes; auto-rotate adds
\* 0.12 dt on top of them.
RotateInputsInBothModes ==
    [][ CameraStep =>
          /\ camAngle' = camAngle + RotateInput(dt, keys)
                                  + (IF autoRot' THEN 120 * dt ELSE 0)
          /\ camElev' = ElevAfter(camElev, dt, keys)
          /\ camDist' = DistAfter(camDist, dt, keys)
      ]_vars

\* C9 witness: a frame in auto-rotate mode with a rotate input held has run.
AutoFrameWithRotateHeld ==
    /\ pc = "advance" /\ autoRot /\ "D" \in keys /\ dt > 0

\* C10: the close signal is looked at only at the frame boundary; a frame
\* that has started completes both passes before the next look; once the
\* signal is seen no frame starts again, and the program releases the shader
\* and the render texture and terminates.
CloseCheckedAtFrameBoundary ==
    /\ [][ /\ pc' = "loop" => pc \in {"start", "pass2"}
           /\ pc = "loop" => pc' \in {"camera", "unload"}
           /\ InFrame => pc' \in {"advance", "project", "pass1", "pass2", "loop"}
           /\ pc \in {"unload", "done"} => pc' \in {"unload", "done"}
           /\ pc' = "done" => ~shaderLoaded' /\ ~rtLoaded' /\ ~windowOpen'
           /\ pc' # "done" /\ pc' # "start" => shaderLoaded' /\ rtLoaded'
         ]_vars
    /\ (pc = "camera") ~> (pc = "loop" /\ screen.drawn)
    /\ (pc = "unload") ~> (pc = "done")

\* C10 witness: the program has terminated after presenting frames.
TerminatedAfterFrames ==
    /\ pc = "done" /\ frames >= 2 /\ screen.drawn
    /\ ~shaderLoaded /\ ~rtLoaded

=============================================================================
